---- MODULE Spec2Model ----
(***************************************************************************)
(* Model of the TNG e-wallet statement extractor: extract.py (direct text  *)
(* extraction with OCR fallback, run as a script) and app.py (the          *)
(* Streamlit flow: upload, extract_transactions, preprocess_transactions,   *)
(* the sidebar filters, the table, the figures and the charts).            *)
(* Text is a sequence of characters, each a string; the recognition        *)
(* pattern is modelled piece by piece with Python's backtracking           *)
(* priorities.                                                             *)
(***************************************************************************)
EXTENDS Integers, Sequences, FiniteSets, TLC

\* ------------------------------------------------------------------ bounds

\* Largest number of pages of a document in a run.
MaxPages == 2

\* Largest number of transaction blocks of a page text in the layout runs.
MaxBlocks == 2

\* ------------------------------------------------------- character classes

\* A character is a string: a printable ASCII character is itself, "\n", "\t",
\* "\r" and "\f" are the escapes, and any other character is written "U+XXXX"
\* with its code point (so "U+00A0" is the one character NO-BREAK SPACE).

\* Every run of ten decimal digits (Unicode category Nd), each from its zero
\* to its nine: what \d of a str pattern matches and what int() and float()
\* read.
DigitRuns ==
   <<
      <<"0", "1", "2", "3", "4", "5", "6", "7", "8", "9">>,
      <<"U+0660", "U+0661", "U+0662", "U+0663", "U+0664",
        "U+0665", "U+0666", "U+0667", "U+0668", "U+0669">>,
      <<"U+06F0", "U+06F1", "U+06F2", "U+06F3", "U+06F4",
        "U+06F5", "U+06F6", "U+06F7", "U+06F8", "U+06F9">>,
      <<"U+07C0", "U+07C1", "U+07C2", "U+07C3", "U+07C4",
        "U+07C5", "U+07C6", "U+07C7", "U+07C8", "U+07C9">>,
      <<"U+0966", "U+0967", "U+0968", "U+0969", "U+096A",
        "U+096B", "U+096C", "U+096D", "U+096E", "U+096F">>,
      <<"U+09E6", "U+09E7", "U+09E8", "U+09E9", "U+09EA",
        "U+09EB", "U+09EC", "U+09ED", "U+09EE", "U+09EF">>,
      <<"U+0A66", "U+0A67", "U+0A68", "U+0A69", "U+0A6A",
        "U+0A6B", "U+0A6C", "U+0A6D", "U+0A6E", "U+0A6F">>,
      <<"U+0AE6", "U+0AE7", "U+0AE8", "U+0AE9", "U+0AEA",
        "U+0AEB", "U+0AEC", "U+0AED", "U+0AEE", "U+0AEF">>,
      <<"U+0B66", "U+0B67", "U+0B68", "U+0B69", "U+0B6A",
        "U+0B6B", "U+0B6C", "U+0B6D", "U+0B6E", "U+0B6F">>,
      <<"U+0BE6", "U+0BE7", "U+0BE8", "U+0BE9", "U+0BEA",
        "U+0BEB", "U+0BEC", "U+0BED", "U+0BEE", "U+0BEF">>,
      <<"U+0C66", "U+0C67", "U+0C68", "U+0C69", "U+0C6A",
        "U+0C6B", "U+0C6C", "U+0C6D", "U+0C6E", "U+0C6F">>,
      <<"U+0CE6", "U+0CE7", "U+0CE8", "U+0CE9", "U+0CEA",
        "U+0CEB", "U+0CEC", "U+0CED", "U+0CEE", "U+0CEF">>,
      <<"U+0D66", "U+0D67", "U+0D68", "U+0D69", "U+0D6A",
        "U+0D6B", "U+0D6C", "U+0D6D", "U+0D6E", "U+0D6F">>,
      <<"U+0DE6", "U+0DE7", "U+0DE8", "U+0DE9", "U+0DEA",
        "U+0DEB", "U+0DEC", "U+0DED", "U+0DEE", "U+0DEF">>,
      <<"U+0E50", "U+0E51", "U+0E52", "U+0E53", "U+0E54",
        "U+0E55", "U+0E56", "U+0E57", "U+0E58", "U+0E59">>,
      <<"U+0ED0", "U+0ED1", "U+0ED2", "U+0ED3", "U+0ED4",
        "U+0ED5", "U+0ED6", "U+0ED7", "U+0ED8", "U+0ED9">>,
      <<"U+0F20", "U+0F21", "U+0F22", "U+0F23", "U+0F24",
        "U+0F25", "U+0F26", "U+0F27", "U+0F28", "U+0F29">>,
      <<"U+1040", "U+1041", "U+1042", "U+1043", "U+1044",
        "U+1045", "U+1046", "U+1047", "U+1048", "U+1049">>,
      <<"U+1090", "U+1091", "U+1092", "U+1093", "U+1094",
        "U+1095", "U+1096", "U+1097", "U+1098", "U+1099">>,
      <<"U+17E0", "U+17E1", "U+17E2", "U+17E3", "U+17E4",
        "U+17E5", "U+17E6", "U+17E7", "U+17E8", "U+17E9">>,
      <<"U+1810", "U+1811", "U+1812", "U+1813", "U+1814",
        "U+1815", "U+1816", "U+1817", "U+1818", "U+1819">>,
      <<"U+1946", "U+1947", "U+1948", "U+1949", "U+194A",
        "U+194B", "U+194C", "U+194D", "U+194E", "U+194F">>,
      <<"U+19D0", "U+19D1", "U+19D2", "U+19D3", "U+19D4",
        "U+19D5", "U+19D6", "U+19D7", "U+19D8", "U+19D9">>,
      <<"U+1A80", "U+1A81", "U+1A82", "U+1A83", "U+1A84",
        "U+1A85", "U+1A86", "U+1A87", "U+1A88", "U+1A89">>,
      <<"U+1A90", "U+1A91", "U+1A92", "U+1A93", "U+1A94",
        "U+1A95", "U+1A96", "U+1A97", "U+1A98", "U+1A99">>,
      <<"U+1B50", "U+1B51", "U+1B52", "U+1B53", "U+1B54",
        "U+1B55", "U+1B56", "U+1B57", "U+1B58", "U+1B59">>,
      <<"U+1BB0", "U+1BB1", "U+1BB2", "U+1BB3", "U+1BB4",
        "U+1BB5", "U+1BB6", "U+1BB7", "U+1BB8", "U+1BB9">>,
      <<"U+1C40", "U+1C41", "U+1C42", "U+1C43", "U+1C44",
        "U+1C45", "U+1C46", "U+1C47", "U+1C48", "U+1C49">>,
      <<"U+1C50", "U+1C51", "U+1C52", "U+1C53", "U+1C54",
        "U+1C55", "U+1C56", "U+1C57", "U+1C58", "U+1C59">>,
      <<"U+A620", "U+A621", "U+A622", "U+A623", "U+A624",
        "U+A625", "U+A626", "U+A627", "U+A628", "U+A629">>,
      <<"U+A8D0", "U+A8D1", "U+A8D2", "U+A8D3", "U+A8D4",
        "U+A8D5", "U+A8D6", "U+A8D7", "U+A8D8", "U+A8D9">>,
      <<"U+A900", "U+A901", "U+A902", "U+A903", "U+A904",
        "U+A905", "U+A906", "U+A907", "U+A908", "U+A909">>,
      <<"U+A9D0", "U+A9D1", "U+A9D2", "U+A9D3", "U+A9D4",
        "U+A9D5", "U+A9D6", "U+A9D7", "U+A9D8", "U+A9D9">>,
      <<"U+A9F0", "U+A9F1", "U+A9F2", "U+A9F3", "U+A9F4",
        "U+A9F5", "U+A9F6", "U+A9F7", "U+A9F8", "U+A9F9">>,
      <<"U+AA50", "U+AA51", "U+AA52", "U+AA53", "U+AA54",
        "U+AA55", "U+AA56", "U+AA57", "U+AA58", "U+AA59">>,
      <<"U+ABF0", "U+ABF1", "U+ABF2", "U+ABF3", "U+ABF4",
        "U+ABF5", "U+ABF6", "U+ABF7", "U+ABF8", "U+ABF9">>,
      <<"U+FF10", "U+FF11", "U+FF12", "U+FF13", "U+FF14",
        "U+FF15", "U+FF16", "U+FF17", "U+FF18", "U+FF19">>,
      <<"U+104A0", "U+104A1", "U+104A2", "U+104A3", "U+104A4",
        "U+104A5", "U+104A6", "U+104A7", "U+104A8", "U+104A9">>,
      <<"U+10D30", "U+10D31", "U+10D32", "U+10D33", "U+10D34",
        "U+10D35", "U+10D36", "U+10D37", "U+10D38", "U+10D39">>,
      <<"U+11066", "U+11067", "U+11068", "U+11069", "U+1106A",
        "U+1106B", "U+1106C", "U+1106D", "U+1106E", "U+1106F">>,
      <<"U+110F0", "U+110F1", "U+110F2", "U+110F3", "U+110F4",
        "U+110F5", "U+110F6", "U+110F7", "U+110F8", "U+110F9">>,
      <<"U+11136", "U+11137", "U+11138", "U+11139", "U+1113A",
        "U+1113B", "U+1113C", "U+1113D", "U+1113E", "U+1113F">>,
      <<"U+111D0", "U+111D1", "U+111D2", "U+111D3", "U+111D4",
        "U+111D5", "U+111D6", "U+111D7", "U+111D8", "U+111D9">>,
      <<"U+112F0", "U+112F1", "U+112F2", "U+112F3", "U+112F4",
        "U+112F5", "U+112F6", "U+112F7", "U+112F8", "U+112F9">>,
      <<"U+11450", "U+11451", "U+11452", "U+11453", "U+11454",
        "U+11455", "U+11456", "U+11457", "U+11458", "U+11459">>,
      <<"U+114D0", "U+114D1", "U+114D2", "U+114D3", "U+114D4",
        "U+114D5", "U+114D6", "U+114D7", "U+114D8", "U+114D9">>,
      <<"U+11650", "U+11651", "U+11652", "U+11653", "U+11654",
        "U+11655", "U+11656", "U+11657", "U+11658", "U+11659">>,
      <<"U+116C0", "U+116C1", "U+116C2", "U+116C3", "U+116C4",
        "U+116C5", "U+116C6", "U+116C7", "U+116C8", "U+116C9">>,
      <<"U+11730", "U+11731", "U+11732", "U+11733", "U+11734",
        "U+11735", "U+11736", "U+11737", "U+11738", "U+11739">>,
      <<"U+118E0", "U+118E1", "U+118E2", "U+118E3", "U+118E4",
        "U+118E5", "U+118E6", "U+118E7", "U+118E8", "U+118E9">>,
      <<"U+11950", "U+11951", "U+11952", "U+11953", "U+11954",
        "U+11955", "U+11956", "U+11957", "U+11958", "U+11959">>,
      <<"U+11C50", "U+11C51", "U+11C52", "U+11C53", "U+11C54",
        "U+11C55", "U+11C56", "U+11C57", "U+11C58", "U+11C59">>,
      <<"U+11D50", "U+11D51", "U+11D52", "U+11D53", "U+11D54",
        "U+11D55", "U+11D56", "U+11D57", "U+11D58", "U+11D59">>,
      <<"U+11DA0", "U+11DA1", "U+11DA2", "U+11DA3", "U+11DA4",
        "U+11DA5", "U+11DA6", "U+11DA7", "U+11DA8", "U+11DA9">>,
      <<"U+16A60", "U+16A61", "U+16A62", "U+16A63", "U+16A64",
        "U+16A65", "U+16A66", "U+16A67", "U+16A68", "U+16A69">>,
      <<"U+16AC0", "U+16AC1", "U+16AC2", "U+16AC3", "U+16AC4",
        "U+16AC5", "U+16AC6", "U+16AC7", "U+16AC8", "U+16AC9">>,
      <<"U+16B50", "U+16B51", "U+16B52", "U+16B53", "U+16B54",
        "U+16B55", "U+16B56", "U+16B57", "U+16B58", "U+16B59">>,
      <<"U+1D7CE", "U+1D7CF", "U+1D7D0", "U+1D7D1", "U+1D7D2",
        "U+1D7D3", "U+1D7D4", "U+1D7D5", "U+1D7D6", "U+1D7D7">>,
      <<"U+1D7D8", "U+1D7D9", "U+1D7DA", "U+1D7DB", "U+1D7DC",
        "U+1D7DD", "U+1D7DE", "U+1D7DF", "U+1D7E0", "U+1D7E1">>,
      <<"U+1D7E2", "U+1D7E3", "U+1D7E4", "U+1D7E5", "U+1D7E6",
        "U+1D7E7", "U+1D7E8", "U+1D7E9", "U+1D7EA", "U+1D7EB">>,
      <<"U+1D7EC", "U+1D7ED", "U+1D7EE", "U+1D7EF", "U+1D7F0",
        "U+1D7F1", "U+1D7F2", "U+1D7F3", "U+1D7F4", "U+1D7F5">>,
      <<"U+1D7F6", "U+1D7F7", "U+1D7F8", "U+1D7F9", "U+1D7FA",
        "U+1D7FB", "U+1D7FC", "U+1D7FD", "U+1D7FE", "U+1D7FF">>,
      <<"U+1E140", "U+1E141", "U+1E142", "U+1E143", "U+1E144",
        "U+1E145", "U+1E146", "U+1E147", "U+1E148", "U+1E149">>,
      <<"U+1E2F0", "U+1E2F1", "U+1E2F2", "U+1E2F3", "U+1E2F4",
        "U+1E2F5", "U+1E2F6", "U+1E2F7", "U+1E2F8", "U+1E2F9">>,
      <<"U+1E950", "U+1E951", "U+1E952", "U+1E953", "U+1E954",
        "U+1E955", "U+1E956", "U+1E957", "U+1E958", "U+1E959">>,
      <<"U+1FBF0", "U+1FBF1", "U+1FBF2", "U+1FBF3", "U+1FBF4",
        "U+1FBF5", "U+1FBF6", "U+1FBF7", "U+1FBF8", "U+1FBF9">>
   >>

\* \d of the pattern.
Digit == UNION {{run[v] : v \in 1..10} : run \in {DigitRuns[r] : r \in 1..Len(DigitRuns)}}

\* \s of the pattern, and what str.strip() removes: the characters whose
\* str.isspace() is true.
Space == {"\t", "\n", "U+000B", "\f", "\r", "U+001C", "U+001D",
          "U+001E", "U+001F", " ", "U+0085", "U+00A0", "U+1680", "U+2000",
          "U+2001", "U+2002", "U+2003", "U+2004", "U+2005", "U+2006", "U+2007",
          "U+2008", "U+2009", "U+200A", "U+2028", "U+2029", "U+202F", "U+205F",
          "U+3000"}

Upper == {"A", "B", "C", "D", "E", "F", "G", "H", "I", "J", "K", "L", "M",
          "N", "O", "P", "Q", "R", "S", "T", "U", "V", "W", "X", "Y", "Z"}

\* [A-Z\s\/] of the name group.
NameClass == Upper \cup Space \cup {"/"}

\* The three alternatives of the type group, in the pattern's order.
ReceiveFromWallet == <<"R", "e", "c", "e", "i", "v", "e", " ", "f", "r", "o", "m",
                       " ", "W", "a", "l", "l", "e", "t">>

PayDirectPayment == <<"P", "a", "y", "D", "i", "r", "e", "c", "t", " ",
                      "P", "a", "y", "m", "e", "n", "t">>

DuitnowRecei == <<"D", "U", "I", "T", "N", "O", "W", "_", "R", "E", "C", "E", "I">>

TypeAlternatives == <<ReceiveFromWallet, PayDirectPayment, DuitnowRecei>>

\* "/2025" of the date group.
YearSuffix == <<"/", "2", "0", "2", "5">>

RMPrefix == <<"R", "M">>

\* ------------------------------------------------------------ text helpers

At(t, i) == IF i >= 1 /\ i <= Len(t) THEN t[i] ELSE ""

Slice(t, a, b) == IF a > b THEN <<>> ELSE SubSeq(t, a, b)

HasLit(t, i, lit) ==
    /\ i >= 1
    /\ i + Len(lit) - 1 <= Len(t)
    /\ \A k \in 1..Len(lit) : t[i + k - 1] = lit[k]

\* First index >= i whose character is outside cls (Len(t) + 1 at the end).
RECURSIVE RunEnd(_, _, _)
RunEnd(t, i, cls) ==
    IF i <= Len(t) /\ t[i] \in cls THEN RunEnd(t, i + 1, cls) ELSE i

NoMatch == [ok |-> FALSE]

\* The first of two attempts that matches: the order of backtracking.
OrElse(r, alt) == IF r.ok THEN r ELSE alt

\* A match with one more capture.
With(r, capture) == IF r.ok THEN r @@ capture ELSE r

\* The rest of the pattern from one of its pieces on, tried at position k.
RECURSIVE PieceAt(_, _, _)

\* The least k in lo..hi where PieceAt(t, k, piece) matches, or hi + 1.
Least(t, lo, hi, piece) ==
    CHOOSE k \in lo..(hi + 1) :
        /\ k = hi + 1 \/ PieceAt(t, k, piece).ok
        /\ \A m \in lo..(k - 1) : ~PieceAt(t, m, piece).ok

AtOrNone(t, k, hi, piece) == IF k > hi THEN NoMatch ELSE PieceAt(t, k, piece)

\* The match at the nearest position: where a lazy .*? stops, and where the
\* next search of findall starts.
FirstMatch(t, lo, hi, piece) == AtOrNone(t, Least(t, lo, hi, piece), hi, piece)

\* ---------------------------------------------- the pattern, back to front

RECURSIVE AmountsAt(_, _)
RECURSIVE NameAt(_, _)

\* \d+\.\d{2} with its digits ending before e: the index after it, or 0. The
\* greedy \d+ gives back digits only to positions that hold a digit, never
\* the ".".
DecimalFrom(t, i, e) ==
    IF e > i /\ At(t, e) = "." /\ At(t, e + 1) \in Digit /\ At(t, e + 2) \in Digit
    THEN e + 3
    ELSE 0

DecimalEnd(t, i) == DecimalFrom(t, i, RunEnd(t, i, Digit))

\* The captures of RM(?P<amount>\d+\.\d{2})\s+RM(?P<balance>\d+\.\d{2}) at i,
\* the amount ending before ae, the \s+ before se, the balance before be.
Captured(t, i, ae, se, be) ==
    IF be = 0 THEN NoMatch
    ELSE [ok |-> TRUE,
          amount |-> Slice(t, i + 2, ae - 1),
          balance |-> Slice(t, se + 2, be - 1),
          end |-> be]

BalanceAt(t, i, ae, se) ==
    IF se = ae \/ ~HasLit(t, se, RMPrefix) THEN NoMatch
    ELSE Captured(t, i, ae, se, DecimalEnd(t, se + 2))

AfterAmount(t, i, ae) ==
    IF ae = 0 THEN NoMatch ELSE BalanceAt(t, i, ae, RunEnd(t, ae, Space))

AmountsAt(t, i) ==
    IF HasLit(t, i, RMPrefix) THEN AfterAmount(t, i, DecimalEnd(t, i + 2)) ELSE NoMatch

\* .*? before the amounts (DOTALL): the nearest position where they match.
LazyAmounts(t, i) == FirstMatch(t, i, Len(t), "amounts")

\* \s+ (greedy, giving back one character at a time) ending before k, lo < k.
RECURSIVE SpacesThenAmounts(_, _, _)
SpacesThenAmounts(t, lo, k) ==
    IF k <= lo THEN NoMatch
    ELSE OrElse(LazyAmounts(t, k), SpacesThenAmounts(t, lo, k - 1))

AfterName(t, i) == SpacesThenAmounts(t, i, RunEnd(t, i, Space))

\* The greatest k in lo..e from which the rest of the pattern matches, or
\* lo - 1: the greedy name group gives back one character at a time.
Greatest(t, lo, e) ==
    CHOOSE k \in (lo - 1)..e :
        /\ k = lo - 1 \/ AfterName(t, k).ok
        /\ \A m \in (k + 1)..e : ~AfterName(t, m).ok

\* The name group ending before k; k = lo is the group left out (findall
\* then gives the empty string).
NameEndingAt(t, lo, k) ==
    IF k < lo THEN NoMatch ELSE With(AfterName(t, k), [name |-> Slice(t, lo, k - 1)])

\* (?P<name>[A-Z\s\/]+)? at i: the longest run first, then shorter ones, then
\* none.
NameAt(t, i) == NameEndingAt(t, i, Greatest(t, i, RunEnd(t, i, NameClass)))

\* .*? between the type and the name group.
LazyName(t, i) == FirstMatch(t, i, Len(t), "name")

\* (?P<type>Receive from Wallet|PayDirect Payment|DUITNOW_RECEI) at i, trying
\* alternative a first.
RECURSIVE TypeAt(_, _, _)
TypeAt(t, i, a) ==
    IF a > Len(TypeAlternatives) THEN NoMatch
    ELSE OrElse(IF HasLit(t, i, TypeAlternatives[a])
                THEN With(LazyName(t, i + Len(TypeAlternatives[a])),
                          [type |-> TypeAlternatives[a]])
                ELSE NoMatch,
                TypeAt(t, i, a + 1))

\* .*? between the date and the type.
LazyType(t, i) == FirstMatch(t, i, Len(t), "type")

\* \d{1,2}/\d{1,2}/2025 with day and month widths dw and mw, then the rest.
DateWith(t, s, dw, mw) ==
    IF /\ \A k \in 0..(dw - 1) : At(t, s + k) \in Digit
       /\ At(t, s + dw) = "/"
       /\ \A k \in 1..mw : At(t, s + dw + k) \in Digit
       /\ HasLit(t, s + dw + mw + 1, YearSuffix)
    THEN With(LazyType(t, s + dw + mw + 1 + Len(YearSuffix)),
              [date |-> Slice(t, s, s + dw + mw + Len(YearSuffix))])
    ELSE NoMatch

\* The greedy order of the two \d{1,2}: two digits before one.
DateWidths == <<<<2, 2>>, <<2, 1>>, <<1, 2>>, <<1, 1>>>>

RECURSIVE MatchAt(_, _, _)
MatchAt(t, s, w) ==
    IF w > Len(DateWidths) THEN NoMatch
    ELSE OrElse(DateWith(t, s, DateWidths[w][1], DateWidths[w][2]),
                MatchAt(t, s, w + 1))

\* re.findall(pattern, text, flags=re.DOTALL): leftmost matches, each search
\* resuming where the previous match ended.
RECURSIVE FindAllFrom(_, _)
RECURSIVE MatchThenRest(_, _)
MatchThenRest(t, r) == IF r.ok THEN <<r>> \o FindAllFrom(t, r.end) ELSE <<>>

PieceAt(t, k, piece) ==
    CASE piece = "amounts" -> AmountsAt(t, k)
      [] piece = "name" -> NameAt(t, k)
      [] piece = "type" -> TypeAt(t, k, 1)
      [] piece = "date" -> MatchAt(t, k, 1)

FindAllFrom(t, s) == MatchThenRest(t, FirstMatch(t, s, Len(t), "date"))

FindAll(t) == FindAllFrom(t, 1)

\* ------------------------------------------------------ record construction

\* str.strip(): leading and trailing whitespace removed.
RECURSIVE LStrip(_)
LStrip(s) == IF s # <<>> /\ Head(s) \in Space THEN LStrip(Tail(s)) ELSE s

RECURSIVE RStrip(_)
RStrip(s) ==
    IF s # <<>> /\ s[Len(s)] \in Space THEN RStrip(SubSeq(s, 1, Len(s) - 1)) ELSE s

\* Mutant: the capture used as matched, .strip() forgotten.
Unstripped(s) == s

Strip(s) == RStrip(LStrip(s))

\* The value of a decimal digit: its place in its run.
DigitVal == [c \in Digit |->
               CHOOSE v \in 0..9 : \E r \in 1..Len(DigitRuns) : DigitRuns[r][v + 1] = c]

RECURSIVE ToNat(_)
ToNat(ds) ==
    IF ds = <<>> THEN 0
    ELSE 10 * ToNat(SubSeq(ds, 1, Len(ds) - 1)) + DigitVal[ds[Len(ds)]]

\* float() of a \d+\.\d{2} capture, as a number of hundredths (exact for the
\* two fraction digits the pattern admits).
Float(s) ==
    LET n == Len(s)
    IN  100 * ToNat(SubSeq(s, 1, n - 3)) + ToNat(SubSeq(s, n - 1, n))

\* The dict appended for one match.
Transaction(m) ==
    [date |-> m.date,
     type |-> Strip(m.type),
     name |-> IF m.name # <<>> THEN Strip(m.name) ELSE <<>>,
     amount |-> Float(m.amount),
     balance |-> Float(m.balance)]

\* The dicts of the matches, in match order.
Records(ms) == [j \in 1..Len(ms) |-> Transaction(ms[j])]

\* The records of one page text.
PageRecords(text) == Records(FindAll(text))

\* Mutant: transactions.insert(0, ...) of a page's records.
PrependRecords(txns, recs) == recs \o txns

\* transactions.append(...) for each match of a page.
AppendRecords(txns, recs) == txns \o recs

\* ------------------------------------------------- preprocess_transactions

IsLeap(y) == (y % 4 = 0 /\ y % 100 # 0) \/ y % 400 = 0

DaysIn(m, y) ==
    IF m \in {4, 6, 9, 11} THEN 30
    ELSE IF m = 2 THEN (IF IsLeap(y) THEN 29 ELSE 28)
    ELSE 31

\* [1-9] of the directives' expressions: the ASCII digits but "0".
OneToNine == {"1", "2", "3", "4", "5", "6", "7", "8", "9"}

\* %d: (?P<d>3[0-1]|[1-2]\d|0[1-9]|[1-9]| [1-9]) matching the whole of s (a
\* "/" follows it). Only the \d of the second alternative takes a digit
\* outside ASCII.
DayDirective(s) ==
    \/ Len(s) = 2 /\ s[1] = "3" /\ s[2] \in {"0", "1"}
    \/ Len(s) = 2 /\ s[1] \in {"1", "2"} /\ s[2] \in Digit
    \/ Len(s) = 2 /\ s[1] = "0" /\ s[2] \in OneToNine
    \/ Len(s) = 1 /\ s[1] \in OneToNine
    \/ Len(s) = 2 /\ s[1] = " " /\ s[2] \in OneToNine

\* %m: (?P<m>1[0-2]|0[1-9]|[1-9]) matching the whole of s.
MonthDirective(s) ==
    \/ Len(s) = 2 /\ s[1] = "1" /\ s[2] \in {"0", "1", "2"}
    \/ Len(s) = 2 /\ s[1] = "0" /\ s[2] \in OneToNine
    \/ Len(s) = 1 /\ s[1] \in OneToNine

\* %Y: (?P<Y>\d\d\d\d) matching the whole of s.
YearDirective(s) == Len(s) = 4 /\ \A k \in 1..4 : s[k] \in Digit

\* The date of the three matched fields: int() of each, and the day must
\* exist in the month.
Calendar(day, month, year) ==
    IF day \in 1..DaysIn(month, year)
    THEN [ok |-> TRUE, day |-> day, month |-> month, year |-> year]
    ELSE [ok |-> FALSE]

\* pd.to_datetime(d, format="%d/%m/%Y") of the fields between the "/": each
\* must match its directive, nothing may remain after the year.
Directives(dayText, monthText, yearText) ==
    IF DayDirective(dayText) /\ MonthDirective(monthText) /\ YearDirective(yearText)
    THEN Calendar(ToNat(LStrip(dayText)), ToNat(monthText), ToNat(yearText))
    ELSE [ok |-> FALSE]

\* The month's text ends before p2, the year's before p3.
AfterMonth(d, p1, p2, p3) ==
    IF At(d, p2) # "/" \/ p3 # Len(d) + 1 THEN [ok |-> FALSE]
    ELSE Directives(Slice(d, 1, p1 - 1), Slice(d, p1 + 1, p2 - 1), Slice(d, p2 + 1, p3 - 1))

\* The day's text ends before p1, the month's before p2.
AfterDay(d, p1, p2) ==
    IF At(d, p1) # "/" THEN [ok |-> FALSE]
    ELSE AfterMonth(d, p1, p2, RunEnd(d, p2 + 1, Digit))

DayEnd(d, p1) == AfterDay(d, p1, RunEnd(d, p1 + 1, Digit))

\* The day's text: an optional blank and the digits after it.
to_datetime(d) == DayEnd(d, RunEnd(d, IF At(d, 1) = " " THEN 2 ELSE 1, Digit))

\* The types whose amount counts as received.
CreditTypes == {ReceiveFromWallet, DuitnowRecei}

\* Mutant: the list of received types without 'DUITNOW_RECEI'.
amount_signed_wallet_only(r) == IF r.type = ReceiveFromWallet THEN r.amount ELSE -r.amount

\* The lambda of df.apply: r['amount'] if r['type'] in [...] else -r['amount'].
amount_signed(r) == IF r.type \in CreditTypes THEN r.amount ELSE -r.amount

\* preprocess_transactions(txns): the rows of the frame, or the failure of
\* to_datetime, which nothing in main catches.
preprocess_transactions(txns) ==
    IF txns = <<>> THEN [ok |-> TRUE, rows |-> <<>>]
    ELSE IF \E i \in 1..Len(txns) : ~to_datetime(txns[i].date).ok
    THEN [ok |-> FALSE, rows |-> <<>>]
    ELSE [ok |-> TRUE,
          rows |-> [i \in 1..Len(txns) |->
                      [date |-> to_datetime(txns[i].date),
                       type |-> txns[i].type,
                       name |-> txns[i].name,
                       amount |-> txns[i].amount,
                       balance |-> txns[i].balance,
                       amount_signed |-> amount_signed(txns[i])]]]

\* ------------------------------------------- main: filters, table, figures

\* The order of two Timestamps.
DateKey(d) == d.year * 10000 + d.month * 100 + d.day

\* df['date'] as a set of values.
Dates(rows) == {rows[i].date : i \in 1..Len(rows)}

\* df['date'].min() and .max() of a frame with rows.
min_date(rows) == CHOOSE d \in Dates(rows) : \A e \in Dates(rows) : DateKey(d) <= DateKey(e)

max_date(rows) == CHOOSE d \in Dates(rows) : \A e \in Dates(rows) : DateKey(d) >= DateKey(e)

\* The day after a date.
NextDay(d) ==
    IF d.day < DaysIn(d.month, d.year) THEN [d EXCEPT !.day = @ + 1]
    ELSE IF d.month < 12 THEN [d EXCEPT !.day = 1, !.month = @ + 1]
    ELSE [d EXCEPT !.day = 1, !.month = 1, !.year = @ + 1]

\* The dates picked here between min_value and max_value: those of the rows
\* and the day after each, which is a day without a row where the rows leave
\* one out.
DateStops(rows) ==
    {d \in Dates(rows) \cup {NextDay(e) : e \in Dates(rows)} :
        DateKey(d) <= DateKey(max_date(rows))}

\* What st.sidebar.date_input may return between min_value and max_value: a
\* range of two dates in order, or one date or none while the range is being
\* picked.
DateRanges(rows) ==
    {<<>>, <<min_date(rows)>>}
      \cup {p \in DateStops(rows) \X DateStops(rows) : DateKey(p[1]) <= DateKey(p[2])}

\* Lines 74-76: the rows within the range, when the range has two dates.
by_date_range(rows, date_range) ==
    IF Len(date_range) = 2
    THEN SelectSeq(rows, LAMBDA r : /\ DateKey(r.date) >= DateKey(date_range[1])
                                    /\ DateKey(r.date) <= DateKey(date_range[2]))
    ELSE rows

\* df['type'].unique(), as a set: the options of the multiselect, whose
\* selection is any part of them.
all_types(rows) == {rows[i].type : i \in 1..Len(rows)}

\* Lines 81-82: an empty selection filters nothing.
by_selected_types(rows, selected_types) ==
    IF selected_types # {}
    THEN SelectSeq(rows, LAMBDA r : r.type \in selected_types)
    ELSE rows

Amounts(rows) == {rows[i].amount_signed : i \in 1..Len(rows)}

\* float(df['amount_signed'].min()) and .max() of a frame with rows (of a
\* frame without rows they are NaN).
min_amount(rows) == CHOOSE a \in Amounts(rows) : \A b \in Amounts(rows) : a <= b

max_amount(rows) == CHOOSE a \in Amounts(rows) : \A b \in Amounts(rows) : a >= b

\* The values the slider is moved to here: the rows' amounts and the value
\* one step (0.01) above each.
AmountStops(rows) ==
    {c \in Amounts(rows) \cup {a + 1 : a \in Amounts(rows)} : c <= max_amount(rows)}

\* What st.sidebar.slider may return: a pair in order within
\* min_amount..max_amount; for a frame without rows, the pair of NaN it was
\* given.
AmountRanges(rows) ==
    IF rows = <<>> THEN {[nan |-> TRUE, low |-> 0, high |-> 0]}
    ELSE {[nan |-> FALSE, low |-> p[1], high |-> p[2]] :
            p \in {q \in AmountStops(rows) \X AmountStops(rows) : q[1] <= q[2]}}

\* Line 88: the rows whose signed amount is within the pair; no amount is
\* >= NaN or <= NaN.
by_amount_range(rows, amount_range) ==
    IF amount_range.nan THEN <<>>
    ELSE SelectSeq(rows, LAMBDA r : /\ r.amount_signed >= amount_range.low
                                    /\ r.amount_signed <= amount_range.high)

\* For each letter A-Z, in order, the characters re.IGNORECASE takes for
\* the same: the letter, its lower case, and for I, K and S the dotted and
\* dotless i, the Kelvin sign and the long s.
CaseClasses ==
    <<{"A", "a"}, {"B", "b"}, {"C", "c"}, {"D", "d"}, {"E", "e"}, {"F", "f"},
      {"G", "g"}, {"H", "h"}, {"I", "i", "U+0130", "U+0131"}, {"J", "j"},
      {"K", "k", "U+212A"}, {"L", "l"}, {"M", "m"}, {"N", "n"}, {"O", "o"},
      {"P", "p"}, {"Q", "q"}, {"R", "r"}, {"S", "s", "U+017F"}, {"T", "t"},
      {"U", "u"}, {"V", "v"}, {"W", "w"}, {"X", "x"}, {"Y", "y"}, {"Z", "z"}>>

\* A character c of a name (a letter A-Z, a blank or "/") and a character d
\* of the search text that case=False takes for the same.
SameLetter(c, d) ==
    \/ c = d
    \/ \E k \in 1..Len(CaseClasses) : {c, d} \subseteq CaseClasses[k]

\* The search text is a regular expression (regex=True is the default of
\* str.contains). The texts typed here are made of "|" between branches, of
\* ".", of "^", of "(" and of characters that stand for themselves.

\* re.compile(search_name): a "(" that nothing closes is an error.
CompileFails(search_name) == \E k \in 1..Len(search_name) : search_name[k] = "("

\* The branches of the expression: the texts between its "|".
RECURSIVE Branches(_, _)
Branches(pat, from) ==
    IF \E k \in from..Len(pat) : pat[k] = "|"
    THEN LET bar == CHOOSE k \in from..Len(pat) :
                        pat[k] = "|" /\ \A m \in from..(k - 1) : pat[m] # "|"
         IN  <<Slice(pat, from, bar - 1)>> \o Branches(pat, bar + 1)
    ELSE <<Slice(pat, from, Len(pat))>>

\* The branch from its k-th character on matches the name at position i:
\* "^" only at the start of the name, "." any character but a newline, any
\* other character itself, whatever the case.
RECURSIVE BranchAt(_, _, _, _)
BranchAt(name, i, branch, k) ==
    IF k > Len(branch) THEN TRUE
    ELSE IF branch[k] = "^" THEN i = 1 /\ BranchAt(name, i, branch, k + 1)
    ELSE IF i > Len(name) THEN FALSE
    ELSE IF branch[k] = "." THEN name[i] # "\n" /\ BranchAt(name, i + 1, branch, k + 1)
    ELSE SameLetter(name[i], branch[k]) /\ BranchAt(name, i + 1, branch, k + 1)

\* df['name'].str.contains(search_name, case=False, na=False) of one name:
\* re.search with re.IGNORECASE finds a branch matching somewhere.
contains(name, search_name) ==
    \E i \in 1..(Len(name) + 1) :
        \E b \in 1..Len(Branches(search_name, 1)) :
            BranchAt(name, i, Branches(search_name, 1)[b], 1)

\* Line 93: filtered_df.
by_name(rows, search_name) == SelectSeq(rows, LAMBDA r : contains(r.name, search_name))

\* What is typed into "Search by name": nothing, "tan", "Z", ".", "a|z", "^j",
\* a dotless i, "(".
SearchNames ==
    {<<>>, <<"t", "a", "n">>, <<"Z">>, <<".">>, <<"a", "|", "z">>, <<"^", "j">>,
     <<"U+0131">>, <<"(">>}

\* df[['date', 'type', 'name', 'amount_signed', 'balance']]: the frame without
\* its 'amount' column.
WithoutAmount(r) ==
    [date |-> r.date, type |-> r.type, name |-> r.name,
     amount_signed |-> r.amount_signed, balance |-> r.balance]

\* A row put after the rows of a sorted frame whose date is not later.
InsertByDate(sorted, r, k) == SubSeq(sorted, 1, k) \o <<r>> \o SubSeq(sorted, k + 1, Len(sorted))

PlaceByDate(sorted, r) ==
    InsertByDate(sorted, r,
                 Cardinality({i \in 1..Len(sorted) : DateKey(sorted[i].date) <= DateKey(r.date)}))

\* .sort_values('date'): ascending; rows of one date keep their order (the
\* sort of a frame this short is an insertion sort).
RECURSIVE sort_values(_)
sort_values(rows) ==
    IF rows = <<>> THEN <<>>
    ELSE PlaceByDate(sort_values(SubSeq(rows, 1, Len(rows) - 1)), rows[Len(rows)])

\* The frame of line 102.
Table(rows) == sort_values([i \in 1..Len(rows) |-> WithoutAmount(rows[i])])

RECURSIVE Sum(_)
Sum(amounts) == IF amounts = <<>> THEN 0 ELSE Head(amounts) + Sum(Tail(amounts))

AmountsSigned(rows) == [i \in 1..Len(rows) |-> rows[i].amount_signed]

\* f"{x:.2f}" of a sum of hundredths: the sign and the digits. minusZero is
\* whether a zero is the float -0.0, which prints as "-0.00".
Fixed2(x, minusZero) ==
    [minus |-> x < 0 \/ (x = 0 /\ minusZero), hundredths |-> IF x < 0 THEN -x ELSE x]

\* Line 106: the sum of the amounts above zero (0.0 when there is none).
TotalReceived(rows) ==
    Fixed2(Sum(SelectSeq(AmountsSigned(rows), LAMBDA a : a > 0)), FALSE)

\* Line 107: minus the sum of the amounts below zero; with none the sum is
\* 0.0 and its negation -0.0.
TotalPaid(rows) ==
    Fixed2(-Sum(SelectSeq(AmountsSigned(rows), LAMBDA a : a < 0)),
           \A i \in 1..Len(rows) : rows[i].amount_signed >= 0)

\* Line 108: df.iloc[-1]['balance'], of the last row in the frame's order.
LastBalance(rows) == Fixed2(rows[Len(rows)].balance, FALSE)

\* The dates of the rows, ascending, each once.
RECURSIVE DatesAscending(_)
DatesAscending(ds) ==
    IF ds = {} THEN <<>>
    ELSE LET d == CHOOSE d \in ds : \A e \in ds : DateKey(d) <= DateKey(e)
         IN  <<d>> \o DatesAscending(ds \ {d})

\* Line 113: df.groupby('date')['amount_signed'].sum().cumsum().reset_index():
\* for each date, ascending, the sum of the amounts up to that date.
cum_df(rows) ==
    LET ds == DatesAscending(Dates(rows))
    IN  [k \in 1..Len(ds) |->
           [date |-> ds[k],
            amount_signed |->
                Sum(AmountsSigned(
                        SelectSeq(rows, LAMBDA r : DateKey(r.date) <= DateKey(ds[k]))))]]

\* Lines 124-125: df['type'].value_counts(): the number of rows of each type.
type_counts(rows) ==
    [ty \in all_types(rows) |-> Cardinality({i \in 1..Len(rows) : rows[i].type = ty})]

\* ------------------------------------------------------------------ inputs

\* A transaction block of a statement page in the expected layout: the text
\* of each field and the value the text stands for.
Render(b) ==
    b.dateText \o <<" ">> \o b.type
      \o (IF b.name = <<>> THEN <<>> ELSE <<" ">> \o b.name)
      \o <<" ">> \o RMPrefix \o b.amountText
      \o <<" ">> \o RMPrefix \o b.balanceText

\* Blocks one per line.
RECURSIVE RenderAll(_)
RenderAll(bs) ==
    IF bs = <<>> THEN <<>>
    ELSE IF Len(bs) = 1 THEN Render(bs[1])
    ELSE Render(bs[1]) \o <<"\n">> \o RenderAll(Tail(bs))

JohnTan == <<"J", "O", "H", "N", " ", "T", "A", "N">>

LayoutFigures ==
    { [dateText |-> <<"1", "/", "2", "/", "2", "0", "2", "5">>, day |-> 1, month |-> 2,
       amountText |-> <<"0", ".", "0", "0">>, amount |-> 0,
       balanceText |-> <<"2", "5", "0", "0", ".", "0", "0">>, balance |-> 250000],
      [dateText |-> <<"1", "2", "/", "0", "3", "/", "2", "0", "2", "5">>, day |-> 12, month |-> 3,
       amountText |-> <<"7", "5", ".", "5", "0">>, amount |-> 7550,
       balanceText |-> <<"0", ".", "0", "5">>, balance |-> 5] }

LayoutBlocks ==
    { f @@ [type |-> ty, name |-> n] :
        f \in LayoutFigures,
        ty \in {ReceiveFromWallet, PayDirectPayment, DuitnowRecei},
        n \in {<<>>, JohnTan} }

LayoutSeqs == UNION { [1..k -> LayoutBlocks] : k \in 1..MaxBlocks }

\* "12/03/2025 Receive from Wallet JOHN TAN RM150.00 RM2500.00"
TextCredit ==
    Render([dateText |-> <<"1", "2", "/", "0", "3", "/", "2", "0", "2", "5">>,
            type |-> ReceiveFromWallet, name |-> JohnTan,
            amountText |-> <<"1", "5", "0", ".", "0", "0">>,
            balanceText |-> <<"2", "5", "0", "0", ".", "0", "0">>])

\* "5/3/2025 PayDirect Payment RM75.50 RM2424.50"
TextDebit ==
    Render([dateText |-> <<"5", "/", "3", "/", "2", "0", "2", "5">>,
            type |-> PayDirectPayment, name |-> <<>>,
            amountText |-> <<"7", "5", ".", "5", "0">>,
            balanceText |-> <<"2", "4", "2", "4", ".", "5", "0">>])

\* "7/3/2025 DUITNOW_RECEI RM0.00 RM2424.50": a credit of nothing.
TextCreditZero ==
    Render([dateText |-> <<"7", "/", "3", "/", "2", "0", "2", "5">>,
            type |-> DuitnowRecei, name |-> <<>>,
            amountText |-> <<"0", ".", "0", "0">>,
            balanceText |-> <<"2", "4", "2", "4", ".", "5", "0">>])

\* "31/02/2025 DUITNOW_RECEI RM1.00 RM2.00": the pattern's date, no calendar's.
TextBadDate ==
    Render([dateText |-> <<"3", "1", "/", "0", "2", "/", "2", "0", "2", "5">>,
            type |-> DuitnowRecei, name |-> <<>>,
            amountText |-> <<"1", ".", "0", "0">>,
            balanceText |-> <<"2", ".", "0", "0">>])

\* "12/03/2025 PayDirect Payment RM\uff11.\uff15\uff10 RM\uff12.\uff10\uff10": the
\* amounts in fullwidth digits.
TextWideAmount ==
    Render([dateText |-> <<"1", "2", "/", "0", "3", "/", "2", "0", "2", "5">>,
            type |-> PayDirectPayment, name |-> <<>>,
            amountText |-> <<"U+FF11", ".", "U+FF15", "U+FF10">>,
            balanceText |-> <<"U+FF12", ".", "U+FF10", "U+FF10">>])

\* "\uff11/2/2025 PayDirect Payment RM1.50 RM2.00": the day a fullwidth digit,
\* which the pattern takes and %d does not.
TextWideDay ==
    Render([dateText |-> <<"U+FF11", "/", "2", "/", "2", "0", "2", "5">>,
            type |-> PayDirectPayment, name |-> <<>>,
            amountText |-> <<"1", ".", "5", "0">>,
            balanceText |-> <<"2", ".", "0", "0">>])

\* "1/2/2025 Receive from Wallet ALI\x0b RM1.00\xa0RM2.00": a vertical tab
\* after the name, a no-break space between the amounts.
TextNoBreak ==
    <<"1", "/", "2", "/", "2", "0", "2", "5", " ">> \o ReceiveFromWallet
      \o <<" ", "A", "L", "I", "U+000B", " ">> \o RMPrefix \o <<"1", ".", "0", "0">>
      \o <<"U+00A0">> \o RMPrefix \o <<"2", ".", "0", "0">>

\* "Page 1 of 2": text without a transaction.
TextOther == <<"P", "a", "g", "e", " ", "1", " ", "o", "f", " ", "2">>

\* What a page gives the two extraction passes: extract_text() (raises, or
\* text, empty when the page has no text layer) and image_to_string().
Page(raises, text, ocrRaises, ocrText) ==
    [raises |-> raises, text |-> text, ocrRaises |-> ocrRaises, ocrText |-> ocrText]

PageChoices ==
    { Page(FALSE, TextCredit, FALSE, TextCredit),
      Page(FALSE, <<>>, FALSE, TextDebit),
      Page(FALSE, <<>>, TRUE, <<>>),
      Page(TRUE, <<>>, FALSE, TextCredit),
      Page(FALSE, TextBadDate, FALSE, TextOther),
      Page(FALSE, TextOther, FALSE, <<>>),
      Page(FALSE, TextDebit \o <<"\n">> \o TextCreditZero, FALSE, TextOther),
      Page(FALSE, TextWideAmount \o <<"\n">> \o TextNoBreak, FALSE, TextWideDay),
      Page(FALSE, TextWideDay, FALSE, TextNoBreak) }

PageSeqs == UNION { [1..k -> PageChoices] : k \in 0..MaxPages }

\* A document: whether it and a password are given to the run, whether
\* pdfplumber.open succeeds with the password, whether convert_from_path
\* succeeds, and its pages.
Docs ==
    { [given |-> TRUE, openOk |-> o, rasterOk |-> r, pages |-> ps, layout |-> <<>>] :
        o \in BOOLEAN, r \in BOOLEAN, ps \in PageSeqs }

\* main run before a file and a password are both given.
NoUpload ==
    [given |-> FALSE, openOk |-> TRUE, rasterOk |-> TRUE, pages |-> <<>>, layout |-> <<>>]

LayoutDocs ==
    { [given |-> TRUE, openOk |-> TRUE, rasterOk |-> TRUE,
       pages |-> <<Page(FALSE, RenderAll(bs), FALSE, <<>>)>>,
       layout |-> bs] : bs \in LayoutSeqs }

\* ------------------------------------------------------------------- state

VARIABLES
    flow,          \* "script": extract.py run as a script; "app": app.py's main
    pc,            \* the position of the run
    doc,           \* the uploaded document (an input, fixed for the run)
    pageIdx,       \* the page the current loop is at
    transactions,  \* the list the current extraction function builds and returns
    messages,      \* what was printed or shown, in order
    handle,        \* the pdfplumber document: "none", "open", "closed"
    tempFile,      \* temp_tng.pdf as opened by main: "none", "open", "closed"
    ocrAttempted,  \* extract_with_ocr was called
    directEmpty,   \* `not txns` after the direct pass: "unknown", "yes", "no"
    failedAt,      \* the page whose processing raised in the current loop, or 0
    df,            \* main's frame: the rows preprocess_transactions returned, then
                   \* those the filters keep
    raised         \* the exception that left the run uncaught, or "none"

vars == <<flow, pc, doc, pageIdx, transactions, messages, handle, tempFile,
          ocrAttempted, directEmpty, failedAt, df, raised>>

\* A line printed or an element shown: the call, its text, and the number
\* in the text (a page, a count).
Msg(via, what, page) == [via |-> via, what |-> what, page |-> page, rows |-> <<>>]

\* An element shown with data: a dict printed, a frame, a figure, a chart.
Shown(via, what, rows) == [via |-> via, what |-> what, page |-> 0, rows |-> rows]

\* The text each function's handler reports.
ErrorText(fn) ==
    CASE fn = "extract_with_pdfplumber" -> "Error using pdfplumber"
      [] fn = "extract_with_ocr" -> "Error using OCR"
      [] fn = "extract_transactions" -> "Error processing PDF"

ErrorTexts == {"Error using pdfplumber", "Error using OCR", "Error processing PDF"}

\* Mutant: the handler names an exception type the failure is not an instance
\* of, so the failure leaves the function.
except_TooNarrow(fn, msgs) == [messages |-> msgs, raised |-> "Exception"]

\* Mutant: `except Exception: pass`, the failure swallowed without a report.
except_Silent(fn, msgs) == [messages |-> msgs, raised |-> "none"]

\* except Exception as e: the failure is reported and the function goes on
\* to return what it has collected.
except_Exception(fn, msgs) ==
    [messages |-> Append(msgs, Msg(IF fn = "extract_transactions" THEN "st.error" ELSE "print",
                                   ErrorText(fn), 0)),
     raised |-> "none"]

\* Where the run goes after a handler: on to the return, unless the
\* exception was not caught.
AfterHandler(h, ret) == IF h.raised = "none" THEN ret ELSE "crashed"

\* Mutant: pdf.close() as the last statement of the try body instead of a
\* with block: an exception skips it.
close_at_end_of_try(h, byException) == IF byException THEN h ELSE "closed"

\* Leaving `with pdfplumber.open(...) as pdf`, normally or by an exception:
\* the context manager closes the document.
with_exit(h, byException) == "closed"

Start ==
    /\ pc = "main"
    /\ pageIdx = 0
    /\ transactions = <<>>
    /\ messages = <<>>
    /\ handle = "none"
    /\ tempFile = "none"
    /\ ocrAttempted = FALSE
    /\ directEmpty = "unknown"
    /\ failedAt = 0
    /\ df = <<>>
    /\ raised = "none"

Init ==
    /\ flow \in {"script", "app"}
    /\ doc \in {d \in Docs \cup {NoUpload} : IF flow = "app" THEN d.rasterOk ELSE d.given}
    /\ Start

InitLayout ==
    /\ flow = "app"
    /\ doc \in LayoutDocs
    /\ Start

\* ------------------------------------------------- extract.py as a script

\* Lines 68-73: the announcement, then the call of extract_with_pdfplumber.
script_main ==
    /\ flow = "script" /\ pc = "main"
    /\ messages' = Append(messages, Msg("print", "Extracting from", 0))
    /\ transactions' = <<>>
    /\ pc' = "plumber_open"
    /\ UNCHANGED <<flow, doc, pageIdx, handle, tempFile, ocrAttempted, directEmpty,
                   failedAt, df, raised>>

\* pdfplumber.open(pdf_path, password=password) inside the try.
extract_with_pdfplumber_open ==
    /\ pc = "plumber_open"
    /\ IF doc.openOk
       THEN /\ handle' = "open"
            /\ pageIdx' = 1
            /\ pc' = "plumber_page"
            /\ UNCHANGED <<messages, raised>>
       ELSE LET h == except_Exception("extract_with_pdfplumber", messages)
            IN  /\ messages' = h.messages
                /\ raised' = h.raised
                /\ pc' = AfterHandler(h, "plumber_ret")
                /\ UNCHANGED <<handle, pageIdx>>
    /\ UNCHANGED <<flow, doc, transactions, tempFile, ocrAttempted, directEmpty,
                   failedAt, df>>

\* One iteration of the page loop.
extract_with_pdfplumber_page ==
    /\ pc = "plumber_page" /\ pageIdx <= Len(doc.pages)
    /\ LET page == doc.pages[pageIdx]
       IN  IF page.raises
           THEN LET h == except_Exception("extract_with_pdfplumber", messages)
                IN  /\ handle' = with_exit(handle, TRUE)
                    /\ messages' = h.messages
                    /\ raised' = h.raised
                    /\ failedAt' = pageIdx
                    /\ pc' = AfterHandler(h, "plumber_ret")
                    /\ UNCHANGED <<pageIdx, transactions>>
           ELSE IF page.text = <<>>
           THEN /\ messages' = Append(messages, Msg("print", "no extractable text", pageIdx))
                /\ pageIdx' = pageIdx + 1
                /\ UNCHANGED <<handle, raised, failedAt, pc, transactions>>
           ELSE /\ messages' = Append(messages, Msg("print", "Text Sample", pageIdx))
                /\ transactions' = AppendRecords(transactions, PageRecords(page.text))
                /\ pageIdx' = pageIdx + 1
                /\ UNCHANGED <<handle, raised, failedAt, pc>>
    /\ UNCHANGED <<flow, doc, tempFile, ocrAttempted, directEmpty, df>>

\* The loop is over: the with block is left and the list returned.
extract_with_pdfplumber_return ==
    /\ pc = "plumber_page" /\ pageIdx > Len(doc.pages)
    /\ handle' = with_exit(handle, FALSE)
    /\ pc' = "plumber_ret"
    /\ UNCHANGED <<flow, doc, pageIdx, transactions, messages, tempFile, ocrAttempted,
                   directEmpty, failedAt, df, raised>>

\* Lines 75-77: `if not txns`, the fallback.
script_after_direct ==
    /\ pc = "plumber_ret"
    /\ IF transactions = <<>>
       THEN /\ directEmpty' = "yes"
            /\ messages' = Append(messages, Msg("print", "No transactions found with pdfplumber", 0))
            /\ pc' = "ocr_convert"
       ELSE /\ directEmpty' = "no"
            /\ pc' = "report"
            /\ UNCHANGED messages
    /\ UNCHANGED <<flow, doc, pageIdx, transactions, handle, tempFile, ocrAttempted,
                   failedAt, df, raised>>

\* extract_with_ocr is entered: its announcement, its own empty list, and
\* convert_from_path(pdf_path) inside the try.
extract_with_ocr_convert ==
    /\ pc = "ocr_convert"
    /\ ocrAttempted' = TRUE
    /\ transactions' = <<>>
    /\ failedAt' = 0
    /\ LET said == Append(messages, Msg("print", "Falling back to OCR", 0))
       IN  IF doc.rasterOk
           THEN /\ messages' = said
                /\ pageIdx' = 1
                /\ pc' = "ocr_page"
                /\ UNCHANGED raised
           ELSE LET h == except_Exception("extract_with_ocr", said)
                IN  /\ messages' = h.messages
                    /\ raised' = h.raised
                    /\ pc' = AfterHandler(h, "ocr_ret")
                    /\ UNCHANGED pageIdx
    /\ UNCHANGED <<flow, doc, handle, tempFile, directEmpty, df>>

\* One iteration of the loop over the page images.
extract_with_ocr_page ==
    /\ pc = "ocr_page" /\ pageIdx <= Len(doc.pages)
    /\ LET page == doc.pages[pageIdx]
           said == Append(messages, Msg("print", "OCR processing page", pageIdx))
       IN  IF page.ocrRaises
           THEN LET h == except_Exception("extract_with_ocr", said)
                IN  /\ messages' = h.messages
                    /\ raised' = h.raised
                    /\ failedAt' = pageIdx
                    /\ pc' = AfterHandler(h, "ocr_ret")
                    /\ UNCHANGED <<pageIdx, transactions>>
           ELSE /\ messages' = Append(said, Msg("print", "OCR Text Sample", pageIdx))
                /\ transactions' = AppendRecords(transactions, PageRecords(page.ocrText))
                /\ pageIdx' = pageIdx + 1
                /\ UNCHANGED <<raised, failedAt, pc>>
    /\ UNCHANGED <<flow, doc, handle, tempFile, ocrAttempted, directEmpty, df>>

extract_with_ocr_return ==
    /\ pc = "ocr_page" /\ pageIdx > Len(doc.pages)
    /\ pc' = "ocr_ret"
    /\ UNCHANGED <<flow, doc, pageIdx, transactions, messages, handle, tempFile,
                   ocrAttempted, directEmpty, failedAt, df, raised>>

\* Line 77: txns = extract_with_ocr(pdf_path).
script_after_ocr ==
    /\ pc = "ocr_ret"
    /\ pc' = "report"
    /\ UNCHANGED <<flow, doc, pageIdx, transactions, messages, handle, tempFile,
                   ocrAttempted, directEmpty, failedAt, df, raised>>

\* Lines 79-84: the final report: nothing found, or the count and then each
\* record on a line of its own, in the list's order.
script_report ==
    /\ pc = "report"
    /\ messages' = IF transactions = <<>>
                   THEN Append(messages, Msg("print", "Still no transactions found", 0))
                   ELSE Append(messages, Msg("print", "Extracted transactions", Len(transactions)))
                          \o [i \in 1..Len(transactions) |->
                                Shown("print", "txn", <<transactions[i]>>)]
    /\ pc' = "done"
    /\ UNCHANGED <<flow, doc, pageIdx, transactions, handle, tempFile, ocrAttempted,
                   directEmpty, failedAt, df, raised>>

\* ------------------------------------------------------------ app.py's main

\* Lines 46-51: the title, the two inputs, and `if pdf_file and password`:
\* without both, main is over.
main_inputs ==
    /\ flow = "app" /\ pc = "main"
    /\ messages' = Append(messages,
                          Msg("st.title", "TNG E-wallet Transactions Analyzer - Advanced", 0))
    /\ pc' = IF doc.given THEN "temp_open" ELSE "done"
    /\ UNCHANGED <<flow, doc, pageIdx, transactions, handle, tempFile, ocrAttempted,
                   directEmpty, failedAt, df, raised>>

\* with open("temp_tng.pdf", "wb") as f:
main_open_temp ==
    /\ pc = "temp_open"
    /\ tempFile' = "open"
    /\ pc' = "temp_write"
    /\ UNCHANGED <<flow, doc, pageIdx, transactions, messages, handle, ocrAttempted,
                   directEmpty, failedAt, df, raised>>

\* f.write(pdf_file.getbuffer()) and the end of the with block.
main_write_temp ==
    /\ pc = "temp_write"
    /\ tempFile' = "closed"
    /\ pc' = "info"
    /\ UNCHANGED <<flow, doc, pageIdx, transactions, messages, handle, ocrAttempted,
                   directEmpty, failedAt, df, raised>>

\* st.info(...), then the call of extract_transactions.
main_extract ==
    /\ pc = "info"
    /\ messages' = Append(messages, Msg("st.info", "Extracting transactions", 0))
    /\ transactions' = <<>>
    /\ pc' = "app_open"
    /\ UNCHANGED <<flow, doc, pageIdx, handle, tempFile, ocrAttempted, directEmpty,
                   failedAt, df, raised>>

extract_transactions_open ==
    /\ pc = "app_open"
    /\ IF doc.openOk
       THEN /\ handle' = "open"
            /\ pageIdx' = 1
            /\ pc' = "app_page"
            /\ UNCHANGED <<messages, raised>>
       ELSE LET h == except_Exception("extract_transactions", messages)
            IN  /\ messages' = h.messages
                /\ raised' = h.raised
                /\ pc' = AfterHandler(h, "app_ret")
                /\ UNCHANGED <<handle, pageIdx>>
    /\ UNCHANGED <<flow, doc, transactions, tempFile, ocrAttempted, directEmpty,
                   failedAt, df>>

extract_transactions_page ==
    /\ pc = "app_page" /\ pageIdx <= Len(doc.pages)
    /\ LET page == doc.pages[pageIdx]
       IN  IF page.raises
           THEN LET h == except_Exception("extract_transactions", messages)
                IN  /\ handle' = with_exit(handle, TRUE)
                    /\ messages' = h.messages
                    /\ raised' = h.raised
                    /\ failedAt' = pageIdx
                    /\ pc' = AfterHandler(h, "app_ret")
                    /\ UNCHANGED <<pageIdx, transactions>>
           ELSE IF page.text = <<>>
           THEN /\ pageIdx' = pageIdx + 1
                /\ UNCHANGED <<handle, messages, raised, failedAt, pc, transactions>>
           ELSE /\ transactions' = AppendRecords(transactions, PageRecords(page.text))
                /\ pageIdx' = pageIdx + 1
                /\ UNCHANGED <<handle, messages, raised, failedAt, pc>>
    /\ UNCHANGED <<flow, doc, tempFile, ocrAttempted, directEmpty, df>>

extract_transactions_return ==
    /\ pc = "app_page" /\ pageIdx > Len(doc.pages)
    /\ handle' = with_exit(handle, FALSE)
    /\ pc' = "app_ret"
    /\ UNCHANGED <<flow, doc, pageIdx, transactions, messages, tempFile, ocrAttempted,
                   directEmpty, failedAt, df, raised>>

\* Lines 58-60: `if not transactions`: the warning and the return.
main_check ==
    /\ pc = "app_ret"
    /\ IF transactions = <<>>
       THEN /\ directEmpty' = "yes"
            /\ messages' = Append(messages,
                                  Msg("st.warning", "No transactions found or incorrect password", 0))
            /\ pc' = "done"
       ELSE /\ directEmpty' = "no"
            /\ pc' = "preprocess"
            /\ UNCHANGED messages
    /\ UNCHANGED <<flow, doc, pageIdx, transactions, handle, tempFile, ocrAttempted,
                   failedAt, df, raised>>

\* Lines 62-65: the frame; a failure of to_datetime leaves main uncaught.
main_preprocess ==
    /\ pc = "preprocess"
    /\ LET r == preprocess_transactions(transactions)
       IN  IF ~r.ok
           THEN /\ raised' = "ValueError"
                /\ pc' = "crashed"
                /\ UNCHANGED <<df, messages>>
           ELSE IF r.rows = <<>>
           THEN /\ df' = r.rows
                /\ messages' = Append(messages,
                                      Msg("st.warning", "No transaction data to display", 0))
                /\ pc' = "done"
                /\ UNCHANGED raised
           ELSE /\ df' = r.rows
                /\ pc' = "date_filter"
                /\ UNCHANGED <<messages, raised>>
    /\ UNCHANGED <<flow, doc, pageIdx, transactions, handle, tempFile, ocrAttempted,
                   directEmpty, failedAt>>

\* Lines 68-76: the sidebar's header and the date range filter.
main_filter_dates ==
    /\ pc = "date_filter"
    /\ \E date_range \in DateRanges(df) : df' = by_date_range(df, date_range)
    /\ messages' = Append(messages, Msg("st.sidebar.header", "Filter Transactions", 0))
    /\ pc' = "type_filter"
    /\ UNCHANGED <<flow, doc, pageIdx, transactions, handle, tempFile, ocrAttempted,
                   directEmpty, failedAt, raised>>

\* Lines 79-82: the transaction type filter.
main_filter_types ==
    /\ pc = "type_filter"
    /\ \E selected_types \in SUBSET all_types(df) :
           df' = by_selected_types(df, selected_types)
    /\ pc' = "amount_filter"
    /\ UNCHANGED <<flow, doc, pageIdx, transactions, messages, handle, tempFile,
                   ocrAttempted, directEmpty, failedAt, raised>>

\* Lines 85-88: the amount range filter.
main_filter_amounts ==
    /\ pc = "amount_filter"
    /\ \E amount_range \in AmountRanges(df) : df' = by_amount_range(df, amount_range)
    /\ pc' = "search"
    /\ UNCHANGED <<flow, doc, pageIdx, transactions, messages, handle, tempFile,
                   ocrAttempted, directEmpty, failedAt, raised>>

\* What lines 92-98 show for a search text.
SearchShown(filtered_df) ==
    <<Msg("st.write", "Found transactions", Len(filtered_df)),
      IF filtered_df # <<>>
      THEN Shown("st.dataframe", "filtered_df", filtered_df)
      ELSE Msg("st.warning", "No matching transactions found", 0)>>

\* Lines 91-98: the search by name, which shows rows and leaves df alone; a
\* search text that is no regular expression raises re.error at line 93,
\* uncaught.
main_search ==
    /\ pc = "search"
    /\ \E search_name \in SearchNames :
           IF search_name = <<>>
           THEN /\ pc' = "show"
                /\ UNCHANGED <<messages, raised>>
           ELSE IF CompileFails(search_name)
           THEN /\ raised' = "re.error"
                /\ pc' = "crashed"
                /\ UNCHANGED messages
           ELSE /\ messages' = messages \o SearchShown(by_name(df, search_name))
                /\ pc' = "show"
                /\ UNCHANGED raised
    /\ UNCHANGED <<flow, doc, pageIdx, transactions, handle, tempFile, ocrAttempted,
                   directEmpty, failedAt, df>>

\* Lines 102-107: the table and the first two figures.
TableAndTotals(rows) ==
    <<Shown("st.dataframe", "df", Table(rows)),
      Shown("metric", "Total Received (RM)", <<TotalReceived(rows)>>),
      Shown("metric", "Total Paid (RM)", <<TotalPaid(rows)>>)>>

\* Lines 108-142: the last balance and the three charts with their data.
BalanceAndCharts(rows) ==
    <<Shown("metric", "Last Balance (RM)", <<LastBalance(rows)>>),
      Msg("st.subheader", "Cumulative Net Amount Over Time", 0),
      Shown("st.altair_chart", "line_chart", cum_df(rows)),
      Msg("st.subheader", "Transaction Type Distribution", 0),
      Shown("st.altair_chart", "pie_chart", <<type_counts(rows)>>),
      Msg("st.subheader", "Transaction Amount Distribution", 0),
      Shown("st.altair_chart", "hist", rows)>>

\* Lines 102-142: the table, the figures and the charts; df.iloc[-1] of a
\* frame the filters left without rows raises IndexError, uncaught.
main_display ==
    /\ pc = "show"
    /\ IF df = <<>>
       THEN /\ messages' = messages \o TableAndTotals(df)
            /\ raised' = "IndexError"
            /\ pc' = "crashed"
       ELSE /\ messages' = messages \o TableAndTotals(df) \o BalanceAndCharts(df)
            /\ pc' = "done"
            /\ UNCHANGED raised
    /\ UNCHANGED <<flow, doc, pageIdx, transactions, handle, tempFile, ocrAttempted,
                   directEmpty, failedAt, df>>

\* ---------------------------------------------------------- specifications

NextScript ==
    \/ script_main
    \/ extract_with_pdfplumber_open
    \/ extract_with_pdfplumber_page
    \/ extract_with_pdfplumber_return
    \/ script_after_direct
    \/ extract_with_ocr_convert
    \/ extract_with_ocr_page
    \/ extract_with_ocr_return
    \/ script_after_ocr
    \/ script_report

NextApp ==
    \/ main_inputs
    \/ main_open_temp
    \/ main_write_temp
    \/ main_extract
    \/ extract_transactions_open
    \/ extract_transactions_page
    \/ extract_transactions_return
    \/ main_check
    \/ main_preprocess
    \/ main_filter_dates
    \/ main_filter_types
    \/ main_filter_amounts
    \/ main_search
    \/ main_display

Next == NextScript \/ NextApp

\* Every run of either program over every document of the bounds.
Spec == Init /\ [][Next]_vars

\* app.py's main over documents of one page made of blocks in the layout.
SpecLayout == InitLayout /\ [][NextApp]_vars

\* ------------------------------------------------------------------ claims

Range(q) == {q[i] : i \in 1..Len(q)}

RunEnded == pc \in {"done", "crashed"}

\* main after extract_transactions returned records.
AfterExtraction == {"preprocess", "date_filter", "type_filter", "amount_filter", "search", "show"}

ErrorReports == {i \in 1..Len(messages) : messages[i].what \in ErrorTexts}

\* The records of the first n pages as the direct pass reads them, page by
\* page, a page without text giving none.
RECURSIVE DirectRecords(_, _)
DirectRecords(pages, n) ==
    IF n = 0 THEN <<>>
    ELSE DirectRecords(pages, n - 1)
           \o (IF pages[n].text = <<>> THEN <<>> ELSE PageRecords(pages[n].text))

\* The records of the first n page images as the OCR pass reads them.
RECURSIVE OcrRecords(_, _)
OcrRecords(pages, n) ==
    IF n = 0 THEN <<>> ELSE OcrRecords(pages, n - 1) \o PageRecords(pages[n].ocrText)

\* The pages a returned pass got through: none when the document did not
\* open, those before the failing page when one failed, else all.
PagesDone(opened) ==
    IF ~opened THEN 0 ELSE IF failedAt > 0 THEN failedAt - 1 ELSE Len(doc.pages)

\* C1 (as claimed): in every run, of the script and of app.py's main, a
\* direct pass that yields zero records is followed by an OCR attempt before
\* the run ends.
C1_FallbackInEveryRun ==
    (RunEnded /\ directEmpty = "yes") => ocrAttempted

\* C2 (as claimed): when processing of page k raises, the pages after k are
\* still processed, so the records of every later page are in the list the
\* function returns.
C2_LaterPagesStillProcessed ==
    /\ (pc \in {"plumber_ret", "app_ret"} /\ failedAt > 0) =>
           \A j \in (failedAt + 1)..Len(doc.pages) :
               (~doc.pages[j].raises /\ doc.pages[j].text # <<>>) =>
                   Range(PageRecords(doc.pages[j].text)) \subseteq Range(transactions)
    /\ (pc = "ocr_ret" /\ failedAt > 0) =>
           \A j \in (failedAt + 1)..Len(doc.pages) :
               ~doc.pages[j].ocrRaises =>
                   Range(PageRecords(doc.pages[j].ocrText)) \subseteq Range(transactions)

\* C3: when the document does not open, extract_with_pdfplumber and
\* extract_transactions report the failure, return the empty list, and no
\* exception leaves them (the run never ends by an uncaught exception).
C3_OpenFailureHandled ==
    ~doc.openOk =>
        /\ raised = "none"
        /\ pc # "crashed"
        /\ pc = "plumber_ret" =>
               /\ transactions = <<>>
               /\ \E i \in 1..Len(messages) :
                      messages[i].what = ErrorText("extract_with_pdfplumber")
        /\ pc = "app_ret" =>
               /\ transactions = <<>>
               /\ \E i \in 1..Len(messages) :
                      messages[i].what = ErrorText("extract_transactions")

\* C3 witness: extract_transactions has returned from a document that did
\* not open.
C3_Witness == ~doc.openOk /\ pc = "app_ret" /\ messages # <<>>

\* C4 (as claimed): for every normalized record, amount_signed is strictly
\* positive exactly when the type is 'Receive from Wallet' or
\* 'DUITNOW_RECEI', records of amount 0.00 included.
C4_SignLawAllAmounts ==
    \A i \in 1..Len(df) :
        (df[i].amount_signed > 0) <=> (df[i].type \in {ReceiveFromWallet, DuitnowRecei})

\* C4 (amended): for every normalized record whose amount is not 0.00,
\* amount_signed is strictly positive exactly when the type is 'Receive from
\* Wallet' or 'DUITNOW_RECEI', and strictly negative otherwise; for a record
\* of amount 0.00, amount_signed is zero whatever the type.
C4_SignLawNonzeroAmounts ==
    \A i \in 1..Len(df) :
        /\ df[i].amount > 0 =>
               /\ (df[i].amount_signed > 0) <=> (df[i].type \in {ReceiveFromWallet, DuitnowRecei})
               /\ (df[i].amount_signed < 0) <=> (df[i].type = PayDirectPayment)
        /\ df[i].amount = 0 => df[i].amount_signed = 0

\* C4 witness: a normalized frame holding a DUITNOW_RECEI record of a
\* nonzero amount and a credit of 0.00.
C4_Witness ==
    /\ pc = "done"
    /\ \E i \in 1..Len(df) : df[i].type = DuitnowRecei /\ df[i].amount > 0
    /\ \E i \in 1..Len(df) : df[i].type \in {ReceiveFromWallet, DuitnowRecei} /\ df[i].amount = 0

\* C5 (as claimed): after the document fails to open, no further extraction
\* strategy runs (no OCR pass) and the failure is reported exactly once.
C5_OpenErrorAbortsRun ==
    (RunEnded /\ doc.given /\ ~doc.openOk) =>
        (~ocrAttempted /\ Cardinality(ErrorReports) = 1)

\* C6: the document handle is open only inside the page loop of the with
\* block and is closed on every way out of it (the end of the loop, a failure
\* in the loop); a document that did not open leaves no handle; temp_tng.pdf
\* is open only while main writes it, closed before extract_transactions is
\* called and at the end of the run (a run of main without an upload opens
\* neither).
C6_ResourcesReleased ==
    /\ handle = "open" => pc \in {"plumber_page", "app_page"}
    /\ pc \in {"plumber_page", "app_page"} => handle = "open"
    /\ pc \in {"plumber_ret", "app_ret", "ocr_convert", "ocr_page", "ocr_ret", "report",
               "done", "crashed"} \cup AfterExtraction =>
           handle = (IF doc.given /\ doc.openOk THEN "closed" ELSE "none")
    /\ tempFile = "open" => pc = "temp_write"
    /\ (flow = "app" /\ pc \in {"info", "app_open", "app_page", "app_ret", "done", "crashed"}
                                  \cup AfterExtraction) =>
           tempFile = (IF doc.given THEN "closed" ELSE "none")

\* C6 witness: extract_transactions has returned after the second page of
\* an opened document raised.
C6_Witness ==
    /\ pc = "app_ret" /\ failedAt = 2
    /\ handle = "closed" /\ tempFile = "closed"

\* C7: the list an extraction function has built, in the loop and at its
\* return, is the concatenation of the records of the pages it got through,
\* in page order and within a page in match order; pages without text add
\* nothing.
C7_PageThenMatchOrder ==
    /\ pc \in {"plumber_page", "app_page"} =>
           transactions = DirectRecords(doc.pages, pageIdx - 1)
    /\ pc \in {"plumber_ret", "app_ret"} =>
           transactions = DirectRecords(doc.pages, PagesDone(doc.openOk))
    /\ pc = "ocr_page" => transactions = OcrRecords(doc.pages, pageIdx - 1)
    /\ pc = "ocr_ret" => transactions = OcrRecords(doc.pages, PagesDone(doc.rasterOk))

\* C7 witness: extract_with_pdfplumber has returned the two records of a
\* first page followed by the record of a second page.
C7_Witness ==
    /\ pc = "plumber_ret"
    /\ Len(doc.pages) = 2
    /\ doc.pages[1].text = TextDebit \o <<"\n">> \o TextCreditZero
    /\ doc.pages[2].text = TextCredit
    /\ Len(transactions) = 3

\* C8: for a page text made of blocks in the expected layout, each with a
\* calendar date, extract_transactions returns records, preprocess_transactions
\* does not fail on them, and the frame it returns has exactly one row per
\* block, in the blocks' order, each carrying its block's date, type, name,
\* amount and balance, also when a block without a name is followed by
\* another block.
C8_RoundTrip ==
    /\ directEmpty # "yes"
    /\ raised # "ValueError"
    /\ pc = "date_filter" =>
           /\ Len(df) = Len(doc.layout)
           /\ \A i \in 1..Len(df) :
                  /\ df[i].date = [ok |-> TRUE, day |-> doc.layout[i].day,
                                   month |-> doc.layout[i].month, year |-> 2025]
                  /\ df[i].type = doc.layout[i].type
                  /\ df[i].name = doc.layout[i].name
                  /\ df[i].amount = doc.layout[i].amount
                  /\ df[i].balance = doc.layout[i].balance

\* C8 witness: preprocess_transactions has returned the frame of a text of
\* two blocks, the first without a name, the second with one.
C8_Witness ==
    /\ pc = "date_filter"
    /\ Len(doc.layout) = 2
    /\ doc.layout[1].name = <<>>
    /\ doc.layout[2].name = JohnTan
    /\ Len(df) = 2

\* What main shows in a run that finds nothing and where nothing fails.
NothingFoundMessages ==
    <<Msg("st.title", "TNG E-wallet Transactions Analyzer - Advanced", 0),
      Msg("st.info", "Extracting transactions", 0),
      Msg("st.warning", "No transactions found or incorrect password", 0)>>

\* A run of main that recognized no record and in which nothing failed.
NothingFoundRun ==
    /\ flow = "app" /\ pc = "done"
    /\ doc.openOk /\ failedAt = 0 /\ directEmpty = "yes"

\* A run of main whose document did not open.
OpenFailedRun == flow = "app" /\ pc = "done" /\ doc.given /\ ~doc.openOk

\* C9 (as claimed): a run of main that recognizes nothing without a failure
\* shows no error, and a run whose document did not open differs from it in
\* the value extract_transactions returned and in the messages shown.
C9_DistinctByValueAndMessages ==
    /\ NothingFoundRun =>
           /\ transactions = <<>>
           /\ ErrorReports = {}
    /\ OpenFailedRun =>
           /\ transactions # <<>>
           /\ messages # NothingFoundMessages

\* C9 (amended): a run of main that recognizes nothing without a failure
\* shows the title, the information and the warning and no error; a run whose document
\* did not open shows an st.error besides, so the two differ in the messages
\* shown, while extract_transactions returns the empty list in both.
C9_DistinctByMessagesOnly ==
    /\ NothingFoundRun =>
           /\ transactions = <<>>
           /\ messages = NothingFoundMessages
           /\ ErrorReports = {}
    /\ OpenFailedRun =>
           /\ transactions = <<>>
           /\ messages # NothingFoundMessages
           /\ \E i \in 1..Len(messages) : messages[i].via = "st.error"

\* C9 witness: a run of main over a document with pages that ends with
\* nothing found and nothing failed.
C9_Witness == NothingFoundRun /\ Len(doc.pages) > 0 /\ Len(messages) = 3

\* C10 (as claimed): every date the pattern matched parses as day/month/year,
\* so main never ends by an uncaught format error.
C10_DatesAlwaysParse ==
    flow = "app" =>
        /\ raised # "ValueError"
        /\ \A i \in 1..Len(transactions) : to_datetime(transactions[i].date).ok

====
